---- MODULE Spec2Model ----
(***************************************************************************)
(* Tenant connection routing and request authentication of                 *)
(* rust_multi_tenant: TenantConnectionManager (the connection cache with   *)
(* its directory lookup), auth_middleware (token extraction, token          *)
(* verification, tenant resolution, context attachment), the token codec   *)
(* (create_jwt_token, validate_jwt_token) and tenant creation              *)
(* (create_tenant, create_tenant_database).                                *)
(*                                                                         *)
(* A worker is one task of the server's pool serving one request at a      *)
(* time.  A step of a worker is the code it runs between two suspension    *)
(* points (.await) of auth_middleware / get_tenant_connection.             *)
(***************************************************************************)
EXTENDS Integers, Sequences, FiniteSets, TLC

VARIABLES
    clock,              \* Utc::now() / get_current_timestamp(), in seconds
    jwt_secret,         \* AppState.jwt_secret
    directory,          \* master database, table tenants: tenant id -> status
    stores,             \* database server: tenant id -> state of database tenant_<id>
    connections,        \* TenantConnectionManager.connections (the HashMap)
    lock,               \* holder of the RwLock's write guard
    master_connection,  \* TenantConnectionManager.master_connection
    pc,                 \* per worker: the suspension point it is at
    req,                \* per worker: the Authorization header of its request
    claims,             \* per worker: `claims` of auth_middleware
    resp,               \* per worker: the outcome of auth_middleware so far
    ext,                \* per worker: request.extensions
    call,               \* per worker: what its get_tenant_connection call did
    jwt,                \* a client's token: what create_jwt_token was given and made
    prov,               \* per admin task: its create_tenant / create_tenant_database call
    dead,               \* the connection objects whose link to the server is broken
    perm,               \* a require_permission call: its arguments and its result
    login,              \* a route handler's run: the route, and what login answered
    lapsed              \* history: the tenants suspended whose entry was removed since

vars == <<clock, jwt_secret, directory, stores, connections, lock,
          master_connection, pc, req, claims, resp, ext, call, jwt, prov, dead, perm,
          login, lapsed>>

(***************************************************************************)
(* Bounds of the model.                                                    *)
(***************************************************************************)
NumTenants == 12        \* tenant ids are 1..NumTenants
NumAdminTenants == 1    \* tenants that are suspended and reactivated (1..NumAdminTenants)
NumWorkers == 2         \* concurrent request tasks
NumAdmins == 2          \* concurrent tenant-creation calls
MaxTtl == 2             \* times to live given to create_jwt_token: 1..MaxTtl seconds
MaxPerms == 2           \* permissions of a context given to require_permission: 0..MaxPerms

Tenants == 1..NumTenants
AdminTenants == 1..NumAdminTenants
UnknownTenant == NumTenants     \* the tenant id that has no row at the start
\* The tenants that requests name where the cache stays below its capacity:
\* two registered ones and the unknown one.
ReqTenants == {1, 2, UnknownTenant}
Workers == 1..NumWorkers
Admins == 1..NumAdmins
NoWorker == 0

(***************************************************************************)
(* Program constants.                                                      *)
(***************************************************************************)
max_connections_per_tenant == 10
StartTime == 1000       \* the clock value at which the model starts

Secrets == {"your-secret-key", "configured-secret"}
Users == {"u1", "u2"}
Statuses == {"active", "suspended"}

OK == 200
UNAUTHORIZED == 401
FORBIDDEN == 403
INTERNAL_SERVER_ERROR == 500

(***************************************************************************)
(* Values.                                                                 *)
(***************************************************************************)
NoClaims == [sub |-> "", tenant_id |-> 0, exp |-> 0, iat |-> 0, permissions |-> <<>>]
NoConn == [store |-> <<"", 0>>, id |-> 0]
NoContext == [tenant_id |-> 0, user_id |-> "", permissions |-> <<>>]
NoExt == [attached |-> FALSE, ctx |-> NoContext, conn |-> NoConn]
NoResp == [done |-> FALSE, status |-> 0, authErr |-> "none", routeErr |-> "none",
           handler |-> FALSE]
\* What a get_tenant_connection call did: whether it was made, the tenant's
\* status and presence in the map when it was made, whether it found the
\* tenant in the map, what its directory lookup saw, whether it called
\* Database::connect, whether it cleared the map, what it returned, and the
\* kind of guard it took on the map ("none": not yet granted).
NoCall == [invoked |-> FALSE, statusAtCall |-> "none", cachedAtCall |-> FALSE,
           deadAtCall |-> FALSE,
           guard |-> "none", hit |-> FALSE, lookup |-> "not_made",
           attempted |-> FALSE, evicted |-> FALSE, conn |-> NoConn,
           err |-> [source |-> "none", is |-> "none"]]

\* What validate_jwt_token returns, and whether the token's time to live had
\* passed when it was called.
NoOut == [err |-> "none", claims |-> NoClaims, late |-> FALSE]
\* A create_jwt_token call: its arguments, the clock when it was made, the
\* token it returned, and what verifying that token gave.
NoJwt == [phase |-> "none", user_id |-> "", tenant_id |-> 0, permissions |-> <<>>,
          secret |-> "", expiration |-> 0, at |-> 0,
          token |-> [form |-> "garbage", claims |-> NoClaims,
                     sig |-> [msg |-> NoClaims, key |-> ""]],
          out |-> NoOut]
\* A tenant-creation call: where it is, the tenant, who called (the
\* create_tenant handler or a caller of create_tenant_database), the state
\* of the tenant's store when create_tenant_database was called, the step
\* that failed and why, the DbErr that create_tenant_database returned, the
\* status the handler answered with and the master connection the handler
\* was given.
NoProv == [pc |-> "idle", tenant |-> 0, via |-> "none", storeAtCall |-> "none",
           master |-> NoConn,
           failed |-> "none", cause |-> "none", err |-> "none", status |-> 0]

\* A require_permission call: the context, the permission required, and the
\* result (ok, or the status of the Err).
NoPerm == [phase |-> "none", context |-> NoContext, required |-> "",
           result |-> [ok |-> FALSE, status |-> 0]]

\* The run of a route's handler: the task, the route, whether the request
\* had passed auth_middleware (token verified, context and connection
\* attached), and for the login handler the credentials given, whether the
\* master database answered the query, the status and whether a token is in
\* the body.
NoLogin == [phase |-> "none", worker |-> 0, route |-> "", gated |-> FALSE,
            email |-> "", password |-> "", answered |-> FALSE,
            status |-> 0, some |-> FALSE,
            token |-> [form |-> "garbage", claims |-> NoClaims,
                       sig |-> [msg |-> NoClaims, key |-> ""]]]

\* HMAC-SHA256 of a message under a key, symbolically: equal exactly when
\* message and key are equal.
Hmac(msg, key) == [msg |-> msg, key |-> key]

\* A compact JWS: a payload and a signature; "garbage" is any text that does
\* not split into three base64 segments holding a header and Claims.
Jwt(c, key) == [form |-> "jwt", claims |-> c, sig |-> Hmac(c, key)]
Tampered(c, signed, key) == [form |-> "jwt", claims |-> c, sig |-> Hmac(signed, key)]
Garbage == [form |-> "garbage", claims |-> NoClaims, sig |-> Hmac(NoClaims, "")]

\* An Authorization header: absent, or a value that is visible ASCII or not,
\* written as a prefix of seven bytes and the rest.
Header(present, text, prefix, rest) ==
    [present |-> present, text |-> text, prefix |-> prefix, rest |-> rest]
NoHeader == Header(FALSE, FALSE, "", Garbage)

PermissionsOf(u) == IF u = "u1" THEN <<"users:read">> ELSE <<"users:read", "users:write">>

(***************************************************************************)
(* Pure functions of the middleware and of the manager.                    *)
(***************************************************************************)
Option(some, val) == [some |-> some, val |-> val]

\* extract_token_from_request without the starts_with("Bearer ") test.
extract_token_from_request_NoPrefix(h) ==
    IF ~h.present THEN Option(FALSE, Garbage)
    ELSE IF ~h.text THEN Option(FALSE, Garbage)
    ELSE Option(TRUE, h.rest)

\* auth.rs extract_token_from_request: the header must be present, be text
\* (to_str), and start with "Bearer "; the token is what follows (auth_str[7..]).
extract_token_from_request(h) ==
    IF ~h.present THEN Option(FALSE, Garbage)
    ELSE IF ~h.text THEN Option(FALSE, Garbage)
    ELSE IF h.prefix = "Bearer " THEN Option(TRUE, h.rest)
    ELSE Option(FALSE, Garbage)

\* Validation::new(Algorithm::HS256): exp is validated with the default leeway.
leeway == 60

\* validate_jwt_token without the verification of the signature.
validate_jwt_token_NoSignature(token, secret, now) ==
    IF token.form # "jwt" THEN [err |-> "Malformed", claims |-> NoClaims]
    ELSE IF token.claims.exp < now - leeway
        THEN [err |-> "Expired", claims |-> NoClaims]
    ELSE [err |-> "none", claims |-> token.claims]

\* auth.rs validate_jwt_token, i.e. jsonwebtoken::decode: the token is split
\* and its header read, the signature is verified over the signed part with
\* the secret, and only then the claims are read and exp is validated.
validate_jwt_token(token, secret, now) ==
    IF token.form # "jwt" THEN [err |-> "Malformed", claims |-> NoClaims]
    ELSE IF token.sig # Hmac(token.claims, secret)
        THEN [err |-> "InvalidSignature", claims |-> NoClaims]
    ELSE IF token.claims.exp < now - leeway
        THEN [err |-> "Expired", claims |-> NoClaims]
    ELSE [err |-> "none", claims |-> token.claims]

\* create_jwt_token with exp taken from the clock alone.
create_jwt_token_NoExpiration(user_id, tenant_id, permissions, secret, expiration, now) ==
    Jwt([sub |-> user_id, tenant_id |-> tenant_id, exp |-> now,
         iat |-> now, permissions |-> permissions], secret)

\* auth.rs create_jwt_token: iat = now, exp = now + expiration, HS256 with secret.
create_jwt_token(user_id, tenant_id, permissions, secret, expiration, now) ==
    Jwt([sub |-> user_id, tenant_id |-> tenant_id, exp |-> now + expiration,
         iat |-> now, permissions |-> permissions], secret)

\* A status chosen by the kind of the verification error.
AuthStatus_ByKind(err) == IF err = "Expired" THEN 403 ELSE UNAUTHORIZED

\* auth.rs:28 and auth.rs:32: what a failed extraction or verification becomes.
AuthStatus(err) == UNAUTHORIZED

\* Every routing error reported as the client's.
RoutingStatus_Unauthorized(err) == UNAUTHORIZED

\* auth.rs:38: what a failed get_tenant_connection becomes.
RoutingStatus(err) == INTERNAL_SERVER_ERROR

\* auth.rs:41-45: the TenantContext built from the claims.
TenantContextOf(c) ==
    [tenant_id |-> c.tenant_id, user_id |-> c.sub, permissions |-> c.permissions]

\* A check that takes "orders:*" for every permission.
require_permission_Wildcard(tenant_context, required_permission) ==
    IF \E i \in 1..Len(tenant_context.permissions) :
            tenant_context.permissions[i] \in {required_permission, "orders:*"}
        THEN [ok |-> TRUE, status |-> 0]
    ELSE [ok |-> FALSE, status |-> FORBIDDEN]

\* auth.rs:97-106: Vec<String>::contains compares the strings for equality.
require_permission(tenant_context, required_permission) ==
    IF \E i \in 1..Len(tenant_context.permissions) :
            tenant_context.permissions[i] = required_permission
        THEN [ok |-> TRUE, status |-> 0]
    ELSE [ok |-> FALSE, status |-> FORBIDDEN]

\* The routes of the application (auth.rs:8-10, users.rs:8-15, tenants.rs:8).
Routes == {"/auth/login", "/auth/register", "/tenants", "/", "/api/users",
           "/api/users/count"}

\* The middleware layered over the routes of the API only.
Layered_ApiOnly(route) == route \in {"/api/users", "/api/users/count", "/tenants"}

\* main.rs:34-41: the layer is added after the three routers were merged,
\* so that it wraps every route.
Layered(route) == route \in Routes

\* A connection to the master database made anew for the caller.
get_master_connection_Reconnect(mc) == [store |-> mc.store, id |-> mc.id + 1]

\* tenant_manager.rs:54-56: a clone of the manager's master connection.
get_master_connection(mc) == mc

\* The URL of one fixed tenant database, whatever the tenant id.
build_tenant_db_url_Fixed(tenant_id) == <<"tenant_", 1>>

\* tenant_manager.rs build_tenant_db_url: the database named in the URL is
\* "tenant_" followed by the tenant id.
build_tenant_db_url(tenant_id) == <<"tenant_", tenant_id>>

\* The status the tenants table holds for a tenant id ("none": no row).
StatusOf(dir, tenant_id) == IF tenant_id \in DOMAIN dir THEN dir[tenant_id] ELSE "none"

\* The lookup without its status filter (WHERE id = $1).
TenantRowFound_AnyStatus(dir, tenant_id) == tenant_id \in DOMAIN dir

\* The lookup without its id filter (WHERE status = 'active').
TenantRowFound_AnyTenant(dir, tenant_id) == \E t \in DOMAIN dir : dir[t] = "active"

\* tenant_manager.rs:62: the lookup's WHERE clause, id = $1 AND status = 'active'.
TenantRowFound(dir, tenant_id) ==
    tenant_id \in DOMAIN dir /\ dir[tenant_id] = "active"

\* The DbErr variants that query_one gives when the master database does not
\* answer (no connection to the server to be had for the pool, or the query
\* failing on the connection), and the one that Database::connect gives when
\* no connection to the server is to be had.
QueryErrs == {"Conn", "Query"}
QueryErr == "Query"     \* the one presented where the kind of failure is of no account
ConnectErr == "Conn"

\* Every failure reported with the one message.
RouteErr_Flattened(step, lib) == [source |-> "adhoc", is |-> "Tenant not found or inactive"]

\* tenant_manager.rs:37, :41, :66, :71: the anyhow::Error that
\* get_tenant_connection returns: the library's DbErr passed on by `?`, or the
\* error made from a message when the lookup finds no row.
RouteErr(step, lib) ==
    IF step = "TenantInactiveOrUnknown"
        THEN [source |-> "adhoc", is |-> "Tenant not found or inactive"]
    ELSE [source |-> "DbErr", is |-> lib]

\* tenant_manager.rs:30: self.connections.write().await, whatever the call
\* goes on to do.
GuardTaken == "write"

\* A lookup that never finds the entry (no check of the map before the fill).
CacheGet_NeverFound(conns, tenant_id) == Option(FALSE, NoConn)

\* tenant_manager.rs:32: connections.get(tenant_id).
CacheGet(conns, tenant_id) ==
    IF tenant_id \in DOMAIN conns THEN Option(TRUE, conns[tenant_id])
    ELSE Option(FALSE, NoConn)

\* The capacity test with > in place of >=.
AtCapacity_Over(conns) == Cardinality(DOMAIN conns) > max_connections_per_tenant

\* tenant_manager.rs:44: the cache is at capacity.
AtCapacity(conns) == Cardinality(DOMAIN conns) >= max_connections_per_tenant

\* tenant_manager.rs:44-49: clear the map when at capacity, then insert.
\* The insert made first and the map cleared after it when it was full.
CacheInsert_ClearAfter(conns, tenant_id, connection) ==
    IF AtCapacity(conns) THEN << >>
    ELSE [t \in DOMAIN conns \cup {tenant_id} |->
            IF t = tenant_id THEN connection ELSE conns[t]]

\* tenant_manager.rs:44-49: a full map is cleared, then the entry is inserted.
CacheInsert(conns, tenant_id, connection) ==
    LET kept == IF AtCapacity(conns) THEN {} ELSE DOMAIN conns
    IN [t \in kept \cup {tenant_id} |->
            IF t = tenant_id THEN connection ELSE conns[t]]

\* Database::connect returns a new pool: an object distinct from every
\* connection object that is still referenced (cached or held by a request).
LiveConns == {connections[t] : t \in DOMAIN connections}
             \cup {ext[r].conn : r \in Workers} \cup {call[r].conn : r \in Workers}
NewConn(db) ==
    LET used == {c.id : c \in {l \in LiveConns : l.store = db}}
    IN [store |-> db, id |-> CHOOSE k \in 1..(Cardinality(used) + 1) : k \notin used]

(***************************************************************************)
(* The requests the model presents.  Tokens are the ones create_jwt_token  *)
(* issued at some earlier time, or forgeries.                              *)
(***************************************************************************)
jwt_expiration == 3600
LongAgo == StartTime - jwt_expiration - leeway - 1
JustNow == StartTime - 1

Issued(u, t, key, at) == create_jwt_token(u, t, PermissionsOf(u), key, jwt_expiration, at)

\* The tokens in date, signed with the configured secret: one for each
\* tenant, of user u1 or u2.
UserOf(t) == IF t % 2 = 1 THEN "u1" ELSE "u2"
FreshTokens(tenants) ==
    {Issued(UserOf(t), t, "configured-secret", JustNow) : t \in tenants}

\* Tokens that verification refuses: signed with another secret, out of date,
\* with a payload that is not the one that was signed, and not a token at all.
ForeignToken == Issued("u1", 1, "your-secret-key", JustNow)
StaleToken == Issued("u1", 1, "configured-secret", LongAgo)
TamperedToken == Tampered(Issued("u1", 1, "configured-secret", JustNow).claims,
                          Issued("u1", UnknownTenant, "configured-secret", JustNow).claims,
                          "configured-secret")
BadTokens == {ForeignToken, StaleToken, TamperedToken, Garbage}

\* Requests that carry no bearer token: no header, a header that is not
\* text, a header of another scheme (holding a token in date).
NoBearerHeaders ==
    {NoHeader, Header(TRUE, FALSE, "Bearer ", Issued("u1", 1, "configured-secret", JustNow)),
     Header(TRUE, TRUE, "Basic t", Issued("u1", 1, "configured-secret", JustNow))}

HeadersOf(tokens) == NoBearerHeaders \cup {Header(TRUE, TRUE, "Bearer ", tok) : tok \in tokens}

Headers == HeadersOf(FreshTokens(ReqTenants) \cup BadTokens)

(***************************************************************************)
(* Initial state: the manager as TenantConnectionManager::new leaves it,   *)
(* over a master database in which every tenant but UnknownTenant is       *)
(* registered and provisioned.                                             *)
(***************************************************************************)
BootedWith(registered) ==
    /\ clock = StartTime
    /\ jwt_secret = "configured-secret"
    /\ directory = [t \in registered |-> "active"]
    /\ stores = [t \in Tenants |-> IF t \in DOMAIN directory THEN "migrated" ELSE "absent"]
    /\ connections = << >>
    /\ lock = NoWorker
    /\ master_connection = [store |-> <<"master", 0>>, id |-> 1]
    /\ pc = [r \in Workers |-> "idle"]
    /\ req = [r \in Workers |-> NoHeader]
    /\ claims = [r \in Workers |-> NoClaims]
    /\ resp = [r \in Workers |-> NoResp]
    /\ ext = [r \in Workers |-> NoExt]
    /\ call = [r \in Workers |-> NoCall]

Booted == BootedWith(Tenants \ {UnknownTenant})

Init ==
    /\ Booted
    /\ jwt = NoJwt
    /\ prov = [a \in Admins |-> NoProv]
    /\ dead = {}
    /\ lapsed = {}
    /\ login = NoLogin
    /\ perm = NoPerm

(***************************************************************************)
(* auth_middleware and get_tenant_connection, one action per stretch of    *)
(* code between suspension points.                                         *)
(***************************************************************************)
\* auth.rs:28/32/38: the middleware returns Err(status); next.run is not reached.
Rejected(r, status, authErr, routeErr) ==
    /\ pc' = [pc EXCEPT ![r] = "rejected"]
    /\ resp' = [resp EXCEPT ![r] = [done |-> TRUE, status |-> status, authErr |-> authErr,
                                    routeErr |-> routeErr, handler |-> FALSE]]

\* The request passed to next.run with nothing inserted into its extensions.
Attached_HandlerFirst(r, conn) ==
    /\ pc' = [pc EXCEPT ![r] = "handler"]
    /\ ext' = ext
    /\ resp' = [resp EXCEPT ![r] = [NoResp EXCEPT !.handler = TRUE]]

\* auth.rs:41-51: the context and the connection are inserted into the
\* request's extensions and the request is passed to next.run.
Attached(r, conn) ==
    /\ pc' = [pc EXCEPT ![r] = "handler"]
    /\ ext' = [ext EXCEPT ![r] = [attached |-> TRUE, ctx |-> TenantContextOf(claims[r]),
                                  conn |-> conn]]
    /\ resp' = [resp EXCEPT ![r] = [NoResp EXCEPT !.handler = TRUE]]

\* The middleware with the tenant resolved from the token's payload before
\* the outcome of the verification is acted on.
Receive_ResolveFirst(r, h) ==
    /\ pc[r] = "idle"
    /\ req' = [req EXCEPT ![r] = h]
    /\ LET tok == extract_token_from_request(h)
       IN IF ~tok.some \/ tok.val.form # "jwt"
            THEN /\ Rejected(r, AuthStatus("NoToken"), "NoToken", "none")
                 /\ UNCHANGED <<claims, call>>
          ELSE /\ claims' = [claims EXCEPT ![r] = tok.val.claims]
               /\ call' = [call EXCEPT ![r] = [NoCall EXCEPT !.invoked = TRUE]]
               /\ pc' = [pc EXCEPT ![r] = "wait_lock"]
               /\ UNCHANGED resp
    /\ UNCHANGED <<jwt, prov, clock, jwt_secret, lapsed, login, dead, perm, directory, stores, connections, lock,
                   master_connection, ext>>

\* auth.rs:26-37: a request arrives; the token is extracted and verified, and
\* get_tenant_connection is called, which waits for the write lock.
Receive(r, h) ==
    /\ pc[r] = "idle"
    /\ req' = [req EXCEPT ![r] = h]
    /\ LET tok == extract_token_from_request(h)
           v == validate_jwt_token(tok.val, jwt_secret, clock)
       IN IF ~tok.some
            THEN /\ Rejected(r, AuthStatus("NoToken"), "NoToken", "none")
                 /\ UNCHANGED <<claims, call>>
          ELSE IF v.err # "none"
            THEN /\ Rejected(r, AuthStatus(v.err), v.err, "none")
                 /\ UNCHANGED <<claims, call>>
          ELSE /\ claims' = [claims EXCEPT ![r] = v.claims]
               /\ call' = [call EXCEPT ![r] =
                            [NoCall EXCEPT !.invoked = TRUE,
                                           !.statusAtCall = StatusOf(directory, v.claims.tenant_id),
                                           !.cachedAtCall = v.claims.tenant_id \in DOMAIN connections,
                                           !.deadAtCall =
                                                /\ v.claims.tenant_id \in DOMAIN connections
                                                /\ connections[v.claims.tenant_id] \in dead]]
               /\ pc' = [pc EXCEPT ![r] = "wait_lock"]
               /\ UNCHANGED resp
    /\ UNCHANGED <<jwt, prov, clock, jwt_secret, lapsed, login, dead, perm, directory, stores, connections, lock,
                   master_connection, ext>>

\* tenant_manager.rs:30-34: the write lock is granted, the tenant is in the
\* map: the clone is returned, the guard is dropped, the middleware attaches.
CacheHit(r) ==
    /\ pc[r] = "wait_lock"
    /\ lock = NoWorker
    /\ LET found == CacheGet(connections, claims[r].tenant_id)
       IN /\ found.some
          /\ call' = [call EXCEPT ![r] = [@ EXCEPT !.guard = GuardTaken, !.hit = TRUE,
                                                   !.conn = found.val]]
          /\ Attached(r, found.val)
    /\ UNCHANGED <<jwt, prov, req, clock, jwt_secret, lapsed, login, dead, perm, directory, stores, connections, lock,
                   master_connection, claims>>

\* The fill decided by what the map held when the call was made, with no
\* look at the map once the lock is granted.
CacheMiss_NoRecheck(r) ==
    /\ pc[r] = "wait_lock"
    /\ lock = NoWorker
    /\ ~call[r].cachedAtCall
    /\ lock' = r
    /\ call' = [call EXCEPT ![r].guard = GuardTaken]
    /\ pc' = [pc EXCEPT ![r] = "validating"]
    /\ UNCHANGED <<jwt, prov, req, clock, jwt_secret, lapsed, login, dead, perm, directory, stores, connections,
                   master_connection, claims, resp, ext>>

\* tenant_manager.rs:30-37: the write lock is granted, the tenant is not in
\* the map: validate_tenant's query is sent while the guard is held.
CacheMiss(r) ==
    /\ pc[r] = "wait_lock"
    /\ lock = NoWorker
    /\ ~CacheGet(connections, claims[r].tenant_id).some
    /\ lock' = r
    /\ call' = [call EXCEPT ![r].guard = GuardTaken]
    /\ pc' = [pc EXCEPT ![r] = "validating"]
    /\ UNCHANGED <<jwt, prov, req, clock, jwt_secret, lapsed, login, dead, perm, directory, stores, connections,
                   master_connection, claims, resp, ext>>

\* The lookup with the guard kept when the tenant has no active row.
ValidateTenant_GuardKept(r, answered, lib) ==
    /\ pc[r] = "validating"
    /\ lock = r
    /\ LET t == claims[r].tenant_id
       IN IF ~answered
            THEN /\ call' = [call EXCEPT ![r] =
                                [@ EXCEPT !.lookup = "error",
                                          !.err = RouteErr("DirectoryUnavailable", lib)]]
                 /\ lock' = NoWorker
                 /\ Rejected(r, RoutingStatus("DirectoryUnavailable"), "none",
                             "DirectoryUnavailable")
          ELSE IF ~TenantRowFound(directory, t)
            THEN /\ call' = [call EXCEPT ![r] =
                                [@ EXCEPT !.lookup = StatusOf(directory, t),
                                          !.err = RouteErr("TenantInactiveOrUnknown", "none")]]
                 /\ lock' = lock
                 /\ Rejected(r, RoutingStatus("TenantInactiveOrUnknown"), "none",
                             "TenantInactiveOrUnknown")
          ELSE /\ call' = [call EXCEPT ![r] = [@ EXCEPT !.lookup = StatusOf(directory, t),
                                                        !.attempted = TRUE]]
               /\ pc' = [pc EXCEPT ![r] = "connecting"]
               /\ UNCHANGED <<lock, resp>>
    /\ UNCHANGED <<jwt, prov, req, clock, jwt_secret, lapsed, login, dead, perm, directory, stores, connections,
                   master_connection, claims, ext>>

\* tenant_manager.rs:58-73 and :37-41: the query returns (answered says
\* whether the master database answered, lib the DbErr that query_one gives
\* when it did not); on a row the URL is built and Database::connect is
\* called, otherwise the error is returned.
ValidateTenant(r, answered, lib) ==
    /\ pc[r] = "validating"
    /\ lock = r
    /\ LET t == claims[r].tenant_id
       IN IF ~answered
            THEN /\ call' = [call EXCEPT ![r] =
                                [@ EXCEPT !.lookup = "error",
                                          !.err = RouteErr("DirectoryUnavailable", lib)]]
                 /\ lock' = NoWorker
                 /\ Rejected(r, RoutingStatus("DirectoryUnavailable"), "none",
                             "DirectoryUnavailable")
          ELSE IF ~TenantRowFound(directory, t)
            THEN /\ call' = [call EXCEPT ![r] =
                                [@ EXCEPT !.lookup = StatusOf(directory, t),
                                          !.err = RouteErr("TenantInactiveOrUnknown", "none")]]
                 /\ lock' = NoWorker
                 /\ Rejected(r, RoutingStatus("TenantInactiveOrUnknown"), "none",
                             "TenantInactiveOrUnknown")
          ELSE /\ call' = [call EXCEPT ![r] = [@ EXCEPT !.lookup = StatusOf(directory, t),
                                                        !.attempted = TRUE]]
               /\ pc' = [pc EXCEPT ![r] = "connecting"]
               /\ UNCHANGED <<lock, resp>>
    /\ UNCHANGED <<jwt, prov, req, clock, jwt_secret, lapsed, login, dead, perm, directory, stores, connections,
                   master_connection, claims, ext>>

\* The database server holds the database the URL names.
StoreExists(db) == db[1] = "tenant_" /\ db[2] \in Tenants /\ stores[db[2]] # "absent"

\* tenant_manager.rs:40-51 and auth.rs:38-51: Database::connect returns
\* (reachable says whether the server could be reached); on success the map is
\* cleared if at capacity, the connection inserted and returned, the guard
\* dropped, and the middleware attaches.
\* The full map cleared before the outcome of the connect is known.
Connect_EvictFirst(r, reachable) ==
    /\ pc[r] = "connecting"
    /\ lock = r
    /\ LET t == claims[r].tenant_id
           db == build_tenant_db_url(t)
           connection == NewConn(db)
       IN IF reachable /\ StoreExists(db)
            THEN /\ connections' = CacheInsert(connections, t, connection)
                 /\ call' = [call EXCEPT ![r] = [@ EXCEPT !.evicted = AtCapacity(connections),
                                                          !.conn = connection]]
                 /\ Attached(r, connection)
                 /\ lapsed' = IF AtCapacity(connections)
                                THEN lapsed \cup {x \in DOMAIN connections :
                                                    StatusOf(directory, x) = "suspended"}
                              ELSE lapsed
          ELSE /\ Rejected(r, RoutingStatus("ConnectFailed"), "none", "ConnectFailed")
               /\ call' = [call EXCEPT ![r].err = RouteErr("ConnectFailed", ConnectErr)]
               /\ lapsed' = lapsed
               /\ connections' = IF AtCapacity(connections) THEN << >> ELSE connections
               /\ UNCHANGED ext
    /\ lock' = NoWorker
    /\ UNCHANGED <<jwt, prov, req, clock, jwt_secret, login, dead, perm, directory, stores, master_connection, claims>>

Connect(r, reachable) ==
    /\ pc[r] = "connecting"
    /\ lock = r
    /\ LET t == claims[r].tenant_id
           db == build_tenant_db_url(t)
           connection == NewConn(db)
       IN IF reachable /\ StoreExists(db)
            THEN /\ connections' = CacheInsert(connections, t, connection)
                 /\ call' = [call EXCEPT ![r] = [@ EXCEPT !.evicted = AtCapacity(connections),
                                                          !.conn = connection]]
                 /\ Attached(r, connection)
                 /\ lapsed' = IF AtCapacity(connections)
                                THEN lapsed \cup {x \in DOMAIN connections :
                                                    StatusOf(directory, x) = "suspended"}
                              ELSE lapsed
          ELSE /\ Rejected(r, RoutingStatus("ConnectFailed"), "none", "ConnectFailed")
               /\ call' = [call EXCEPT ![r].err = RouteErr("ConnectFailed", ConnectErr)]
               /\ lapsed' = lapsed
               /\ UNCHANGED <<connections, ext>>
    /\ lock' = NoWorker
    /\ UNCHANGED <<jwt, prov, req, clock, jwt_secret, login, dead, perm, directory, stores, master_connection, claims>>

\* The response is sent (the handler's, or the rejection) or the request was
\* abandoned; the request and everything in its scope is dropped and the task
\* takes the next request.
Finish(r) ==
    /\ pc[r] \in {"handler", "rejected", "abandoned"}
    /\ pc' = [pc EXCEPT ![r] = "idle"]
    /\ req' = [req EXCEPT ![r] = NoHeader]
    /\ claims' = [claims EXCEPT ![r] = NoClaims]
    /\ resp' = [resp EXCEPT ![r] = NoResp]
    /\ ext' = [ext EXCEPT ![r] = NoExt]
    /\ call' = [call EXCEPT ![r] = NoCall]
    /\ UNCHANGED <<jwt, prov, clock, jwt_secret, lapsed, login, dead, perm, directory, stores, connections, lock,
                   master_connection>>

\* Administrative action on the master database: a registered tenant is
\* suspended or reactivated.
SetStatus(t, s) ==
    /\ t \in DOMAIN directory
    /\ s # directory[t]
    /\ directory' = [directory EXCEPT ![t] = s]
    /\ lapsed' = lapsed \ {t}
    /\ UNCHANGED <<jwt, prov, req, clock, jwt_secret, login, dead, perm, stores, connections, lock, master_connection,
                   pc, claims, resp, ext, call>>

Next ==
    \/ \E r \in Workers, h \in Headers : Receive(r, h)
    \/ \E r \in Workers : CacheHit(r)
    \/ \E r \in Workers : CacheMiss(r)
    \/ \E r \in Workers, answered \in BOOLEAN : ValidateTenant(r, answered, QueryErr)
    \/ \E r \in Workers, reachable \in BOOLEAN : Connect(r, reachable)
    \/ \E r \in Workers : Finish(r)
    \/ \E t \in AdminTenants, s \in Statuses : SetStatus(t, s)

Spec == Init /\ [][Next]_vars

(***************************************************************************)
(* The cache at its capacity.  Requests name every tenant, of which more   *)
(* than max_connections_per_tenant are active.  The write guard is held    *)
(* from the map's lookup to the insert, so the calls of concurrent         *)
(* requests on the map run one after the other: one task presents them.    *)
(***************************************************************************)
CapWorkers == {1}
CapHeaders == {Header(TRUE, TRUE, "Bearer ", tok) : tok \in FreshTokens(Tenants)}

NextCap ==
    \/ \E r \in CapWorkers, h \in CapHeaders : Receive(r, h)
    \/ \E r \in CapWorkers : CacheHit(r)
    \/ \E r \in CapWorkers : CacheMiss(r)
    \/ \E r \in CapWorkers, answered \in BOOLEAN : ValidateTenant(r, answered, QueryErr)
    \/ \E r \in CapWorkers, reachable \in BOOLEAN : Connect(r, reachable)
    \/ \E r \in CapWorkers : Finish(r)
    \/ \E t \in AdminTenants, s \in Statuses : SetStatus(t, s)

SpecCap == Init /\ [][NextCap]_vars

(***************************************************************************)
(* Failures and abandonment.  Two requests with tokens in date; a failed   *)
(* directory lookup gives any of the errors query_one can give; a request  *)
(* can be abandoned (its future dropped: the client has gone, a deadline   *)
(* has passed) at each suspension point of get_tenant_connection.          *)
(***************************************************************************)
FailHeaders == {Header(TRUE, TRUE, "Bearer ", tok) : tok \in FreshTokens(ReqTenants)}

\* The future dropped with the guard left locked.
Abandon_GuardKept(r) ==
    /\ pc[r] \in {"wait_lock", "validating", "connecting"}
    /\ pc' = [pc EXCEPT ![r] = "abandoned"]
    /\ UNCHANGED <<clock, jwt_secret, lapsed, login, dead, perm, directory, stores, connections, lock,
                   master_connection, req, claims, resp, ext, call, jwt, prov>>

\* tenant_manager.rs:30, :37, :41: the future of get_tenant_connection is
\* dropped at one of its .await points: its locals are dropped, the write
\* guard among them if it was granted, and the code after the .await (the
\* insert into the map) does not run.
Abandon(r) ==
    /\ pc[r] \in {"wait_lock", "validating", "connecting"}
    /\ pc' = [pc EXCEPT ![r] = "abandoned"]
    /\ lock' = IF lock = r THEN NoWorker ELSE lock
    /\ UNCHANGED <<clock, jwt_secret, lapsed, login, dead, perm, directory, stores, connections,
                   master_connection, req, claims, resp, ext, call, jwt, prov>>

NextFail ==
    \/ \E r \in Workers, h \in FailHeaders : Receive(r, h)
    \/ \E r \in Workers : CacheHit(r)
    \/ \E r \in Workers : CacheMiss(r)
    \/ \E r \in Workers, answered \in BOOLEAN, lib \in QueryErrs :
            ValidateTenant(r, answered, lib)
    \/ \E r \in Workers, reachable \in BOOLEAN : Connect(r, reachable)
    \/ \E r \in Workers : Abandon(r)
    \/ \E r \in Workers : Finish(r)

SpecFail == Init /\ [][NextFail]_vars

(***************************************************************************)
(* Progress of get_tenant_connection.  tokio's RwLock grants the lock in   *)
(* the order of the requests for it, so a call that waits is granted the   *)
(* lock (strong fairness); a query sent and a connect started return.      *)
(***************************************************************************)
NextLive ==
    \/ \E r \in Workers, h \in FailHeaders : Receive(r, h)
    \/ \E r \in Workers : CacheHit(r)
    \/ \E r \in Workers : CacheMiss(r)
    \/ \E r \in Workers, answered \in BOOLEAN : ValidateTenant(r, answered, QueryErr)
    \/ \E r \in Workers, reachable \in BOOLEAN : Connect(r, reachable)
    \/ \E r \in Workers : Finish(r)

FairLive ==
    \A r \in Workers :
        /\ SF_vars(CacheHit(r) \/ CacheMiss(r))
        /\ WF_vars(\E answered \in BOOLEAN : ValidateTenant(r, answered, QueryErr))
        /\ WF_vars(\E reachable \in BOOLEAN : Connect(r, reachable))

SpecLive == Init /\ [][NextLive]_vars /\ FairLive

(***************************************************************************)
(* Concurrent calls.  Every task has received a request with a token in    *)
(* date while the map was empty and no call had been granted the lock, so  *)
(* that all the get_tenant_connection calls are under way together.        *)
(***************************************************************************)
InitBurst ==
    \E hs \in [Workers -> FailHeaders] :
        LET verified(r) ==
                validate_jwt_token(extract_token_from_request(hs[r]).val,
                                   "configured-secret", StartTime).claims
        IN
        /\ clock = StartTime
        /\ jwt_secret = "configured-secret"
        /\ directory = [t \in Tenants \ {UnknownTenant} |-> "active"]
        /\ stores = [t \in Tenants |-> IF t = UnknownTenant THEN "absent" ELSE "migrated"]
        /\ connections = << >>
        /\ lock = NoWorker
        /\ master_connection = [store |-> <<"master", 0>>, id |-> 1]
        /\ pc = [r \in Workers |-> "wait_lock"]
        /\ req = hs
        /\ claims = [r \in Workers |-> verified(r)]
        /\ resp = [r \in Workers |-> NoResp]
        /\ ext = [r \in Workers |-> NoExt]
        /\ call = [r \in Workers |->
                    [NoCall EXCEPT !.invoked = TRUE,
                                   !.statusAtCall =
                                        IF verified(r).tenant_id = UnknownTenant
                                            THEN "none" ELSE "active"]]
        /\ jwt = NoJwt
        /\ prov = [a \in Admins |-> NoProv]
        /\ dead = {}
        /\ lapsed = {}
        /\ login = NoLogin
        /\ perm = NoPerm

NextBurst ==
    \/ \E r \in Workers : CacheHit(r)
    \/ \E r \in Workers : CacheMiss(r)
    \/ \E r \in Workers, answered \in BOOLEAN : ValidateTenant(r, answered, QueryErr)
    \/ \E r \in Workers, reachable \in BOOLEAN : Connect(r, reachable)

SpecBurst == InitBurst /\ [][NextBurst]_vars

(***************************************************************************)
(* Connections that die.  One task presents requests with tokens in date;  *)
(* the link of a cached connection to its server can break at any time.    *)
(***************************************************************************)
\* A cached connection dies.
Die(c) ==
    /\ c \in {connections[t] : t \in DOMAIN connections}
    /\ c \notin dead
    /\ dead' = dead \cup {c}
    /\ UNCHANGED <<clock, jwt_secret, lapsed, login, perm, directory, stores, connections, lock,
                   master_connection, pc, req, claims, resp, ext, call, jwt, prov>>

NextDead ==
    \/ \E r \in CapWorkers, h \in FailHeaders : Receive(r, h)
    \/ \E r \in CapWorkers : CacheHit(r)
    \/ \E r \in CapWorkers : CacheMiss(r)
    \/ \E r \in CapWorkers, answered \in BOOLEAN : ValidateTenant(r, answered, QueryErr)
    \/ \E r \in CapWorkers, reachable \in BOOLEAN : Connect(r, reachable)
    \/ \E r \in CapWorkers : Finish(r)
    \/ \E c \in LiveConns : Die(c)

SpecDead == Init /\ [][NextDead]_vars

(***************************************************************************)
(* The token codec on its own: create_jwt_token is called with arguments   *)
(* drawn from small sets, time passes, and the token is verified with the  *)
(* configured secret as auth_middleware verifies it.                       *)
(***************************************************************************)
MaxElapsed == leeway + MaxTtl + 1   \* the clock stops this long after StartTime
Ttls == 1..MaxTtl
PermLists == {<<>>, <<"users:read", "users:write">>, <<"users:write", "users:read">>}
JwtTenants == {1, 2}

InitJwt ==
    /\ Booted
    /\ prov = [a \in Admins |-> NoProv]
    /\ dead = {}
    /\ lapsed = {}
    /\ login = NoLogin
    /\ perm = NoPerm
    /\ \E t \in JwtTenants, perms \in PermLists, key \in Secrets, ttl \in Ttls :
          jwt = [NoJwt EXCEPT !.phase = "inputs", !.user_id = UserOf(t), !.tenant_id = t,
                              !.permissions = perms, !.secret = key, !.expiration = ttl]

\* auth.rs:75-95: create_jwt_token is called.
JwtIssue ==
    /\ jwt.phase = "inputs"
    /\ jwt' = [jwt EXCEPT !.phase = "issued", !.at = clock,
                          !.token = create_jwt_token(jwt.user_id, jwt.tenant_id,
                                        jwt.permissions, jwt.secret, jwt.expiration, clock)]
    /\ UNCHANGED <<clock, jwt_secret, lapsed, login, dead, perm, directory, stores, connections, lock,
                   master_connection, pc, req, claims, resp, ext, call, prov>>

\* A second passes.
Tick ==
    /\ clock < StartTime + MaxElapsed
    /\ clock' = clock + 1
    /\ UNCHANGED <<jwt_secret, lapsed, login, dead, perm, directory, stores, connections, lock,
                   master_connection, pc, req, claims, resp, ext, call, jwt, prov>>

\* auth.rs:31: validate_jwt_token(&token, &state.jwt_secret).
JwtVerify ==
    /\ jwt.phase \in {"issued", "verified"}
    /\ LET v == validate_jwt_token(jwt.token, jwt_secret, clock)
       IN jwt' = [jwt EXCEPT !.phase = "verified",
                             !.out = [err |-> v.err, claims |-> v.claims,
                                      late |-> clock > jwt.at + jwt.expiration]]
    /\ UNCHANGED <<clock, jwt_secret, lapsed, login, dead, perm, directory, stores, connections, lock,
                   master_connection, pc, req, claims, resp, ext, call, prov>>

NextJwt == JwtIssue \/ Tick \/ JwtVerify

SpecJwt == InitJwt /\ [][NextJwt]_vars

(***************************************************************************)
(* The permission check on its own: a context and a required permission    *)
(* are given, and require_permission is applied to them.                   *)
(***************************************************************************)
PermStrings == {"orders:read", "orders:write", "orders:*", "ORDERS:READ", "orders"}
PermContexts ==
    {[tenant_id |-> 1, user_id |-> "u1", permissions |-> p] :
        p \in UNION {[1..n -> PermStrings] : n \in 0..MaxPerms}}

InitPerm ==
    /\ Booted
    /\ jwt = NoJwt
    /\ prov = [a \in Admins |-> NoProv]
    /\ dead = {}
    /\ lapsed = {}
    /\ login = NoLogin
    /\ perm \in {[NoPerm EXCEPT !.phase = "called", !.context = ctx, !.required = p] :
                    ctx \in PermContexts, p \in PermStrings}

RequirePermission ==
    /\ perm.phase = "called"
    /\ perm' = [perm EXCEPT !.phase = "returned",
                            !.result = require_permission(perm.context, perm.required)]
    /\ UNCHANGED <<clock, jwt_secret, lapsed, login, dead, directory, stores, connections, lock,
                   master_connection, pc, req, claims, resp, ext, call, jwt, prov>>

NextPerm == RequirePermission

SpecPerm == InitPerm /\ [][NextPerm]_vars

(***************************************************************************)
(* Tenant creation: the create_tenant handler (the row is inserted, then   *)
(* create_tenant_database is called) and create_tenant_database called on  *)
(* its own, one action per stretch of code between suspension points.      *)
(* Each ok says whether the database server did what it was asked.         *)
(***************************************************************************)
\* The tenants that creation calls name: no row and no store at the start.
NewTenants == {UnknownTenant - 1, UnknownTenant}

\* Tenant ids are strings that the caller chooses (shared_types.rs:18-21);
\* the last of the ids named stands for one with a character outside the
\* allow-listed set, such as "x; DROP DATABASE y".
AllowListed(tenant_id) == tenant_id # UnknownTenant

InitProv ==
    /\ BootedWith(Tenants \ NewTenants)
    /\ jwt = NoJwt
    /\ prov = [a \in Admins |-> NoProv]
    /\ dead = {}
    /\ lapsed = {}
    /\ login = NoLogin
    /\ perm = NoPerm
UpOutcomes == {"ok", "Exec", "Migration"}

\* master.rs:26-30: the row is inserted with status "active".
InsertTenant(dir, tenant_id) ==
    [t \in DOMAIN dir \cup {tenant_id} |-> IF t = tenant_id THEN "active" ELSE dir[t]]

\* auth_controller.rs:49/53: every error of the handler becomes status 500;
\* a caller of create_tenant_database gets its Err.
ProvReturn(a, failed, cause, err) ==
    prov' = [prov EXCEPT ![a] =
                [@ EXCEPT !.pc = "returned", !.failed = failed, !.cause = cause,
                          !.err = IF failed = "register" THEN "none" ELSE err,
                          !.status = IF prov[a].via # "handler" THEN 0
                                     ELSE IF failed = "none" THEN OK
                                     ELSE INTERNAL_SERVER_ERROR]]

\* auth_controller.rs:45-52 and master.rs:18-45: the handler takes the
\* master connection and its INSERT returns (it fails when the id has a row:
\* id is the primary key); on success create_tenant_database is called,
\* which starts to connect to the server.
CreateTenant(a, t, ok) ==
    /\ prov[a].pc = "idle"
    /\ IF ok /\ t \notin DOMAIN directory
         THEN /\ directory' = InsertTenant(directory, t)
              /\ prov' = [prov EXCEPT ![a] = [NoProv EXCEPT !.pc = "connect_admin", !.tenant = t,
                                                 !.via = "handler",
                                                 !.master = get_master_connection(master_connection),
                                                 !.storeAtCall = stores[t]]]
         ELSE /\ prov' = [prov EXCEPT ![a] =
                            [NoProv EXCEPT !.pc = "returned", !.tenant = t, !.via = "handler",
                                           !.master = get_master_connection(master_connection),
                                           !.failed = "register",
                                           !.cause = IF ok THEN "exists" ELSE "server",
                                           !.status = INTERNAL_SERVER_ERROR]]
              /\ UNCHANGED directory
    /\ UNCHANGED <<clock, jwt_secret, lapsed, login, dead, perm, stores, connections, lock, master_connection,
                   pc, req, claims, resp, ext, call, jwt>>

\* tenant_manager.rs:86-88: create_tenant_database is called on its own.
ProvisionCall(a, t) ==
    /\ prov[a].pc = "idle"
    /\ prov' = [prov EXCEPT ![a] = [NoProv EXCEPT !.pc = "connect_admin", !.tenant = t,
                                                 !.via = "direct",
                                                 !.storeAtCall = stores[t]]]
    /\ UNCHANGED <<clock, jwt_secret, lapsed, login, dead, perm, directory, stores, connections, lock,
                   master_connection, pc, req, claims, resp, ext, call, jwt>>

\* tenant_manager.rs:88-96: the connection to the postgres database is there
\* or not; CREATE DATABASE is sent.
ConnectAdmin(a, ok) ==
    /\ prov[a].pc = "connect_admin"
    /\ IF ok THEN prov' = [prov EXCEPT ![a].pc = "create_db"]
             ELSE ProvReturn(a, "store", "unreachable", "Conn")
    /\ UNCHANGED <<clock, jwt_secret, lapsed, login, dead, perm, directory, stores, connections, lock,
                   master_connection, pc, req, claims, resp, ext, call, jwt>>

\* The state create_tenant_database leaves a store in that it found absent.
StoreCreated == "created"

\* tenant_manager.rs:96-104: CREATE DATABASE returns: an error if the
\* database exists or the server refuses, and `?` returns it; otherwise the
\* database is there, and run_tenant_migrations starts to connect to it.
CreateDatabase(a, ok) ==
    /\ prov[a].pc = "create_db"
    /\ LET t == prov[a].tenant
       IN IF ~ok
            THEN ProvReturn(a, "store", "server", "Exec") /\ UNCHANGED stores
          ELSE IF stores[t] # "absent"
            THEN ProvReturn(a, "store", "exists", "Exec") /\ UNCHANGED stores
          ELSE /\ stores' = [stores EXCEPT ![t] = StoreCreated]
               /\ prov' = [prov EXCEPT ![a].pc = "connect_store"]
    /\ UNCHANGED <<clock, jwt_secret, lapsed, login, dead, perm, directory, connections, lock, master_connection,
                   pc, req, claims, resp, ext, call, jwt>>

\* tenant_manager.rs:104-105: the connection to the tenant's database is
\* there or not; TenantMigrator::up is started.
ConnectTenantStore(a, ok) ==
    /\ prov[a].pc = "connect_store"
    /\ IF ok THEN prov' = [prov EXCEPT ![a].pc = "migrating"]
             ELSE ProvReturn(a, "schema", "unreachable", "Conn")
    /\ UNCHANGED <<clock, jwt_secret, lapsed, login, dead, perm, directory, stores, connections, lock,
                   master_connection, pc, req, claims, resp, ext, call, jwt>>

\* tenant_manager.rs:105-106 and auth_controller.rs:53-55: up returns, and
\* with it create_tenant_database and the handler.
Migrate(a, outcome) ==
    /\ prov[a].pc = "migrating"
    /\ IF outcome = "ok"
         THEN /\ stores' = [stores EXCEPT ![prov[a].tenant] = "migrated"]
              /\ ProvReturn(a, "none", "none", "none")
         ELSE /\ ProvReturn(a, "schema", "server", outcome)
              /\ UNCHANGED stores
    /\ UNCHANGED <<clock, jwt_secret, lapsed, login, dead, perm, directory, connections, lock, master_connection,
                   pc, req, claims, resp, ext, call, jwt>>

\* The caller has its answer; the task takes the next call.
ProvFinish(a) ==
    /\ prov[a].pc = "returned"
    /\ prov' = [prov EXCEPT ![a] = NoProv]
    /\ UNCHANGED <<clock, jwt_secret, lapsed, login, dead, perm, directory, stores, connections, lock,
                   master_connection, pc, req, claims, resp, ext, call, jwt>>

NextProv ==
    \/ \E a \in Admins, t \in NewTenants, ok \in BOOLEAN : CreateTenant(a, t, ok)
    \/ \E a \in Admins, t \in NewTenants : ProvisionCall(a, t)
    \/ \E a \in Admins, ok \in BOOLEAN : ConnectAdmin(a, ok)
    \/ \E a \in Admins, ok \in BOOLEAN : CreateDatabase(a, ok)
    \/ \E a \in Admins, ok \in BOOLEAN : ConnectTenantStore(a, ok)
    \/ \E a \in Admins, outcome \in UpOutcomes : Migrate(a, outcome)
    \/ \E a \in Admins : ProvFinish(a)

SpecProv == InitProv /\ [][NextProv]_vars

(***************************************************************************)
(* Routes and login.  The secret is the one configured (JWT_SECRET); a     *)
(* task serves requests, and the handler of the request's route runs; the  *)
(* login handler looks the credentials up in the users table of the master *)
(* database for the tenant "demo_tenant", and the token it answers with    *)
(* can be presented in a later request.                                    *)
(***************************************************************************)
\* master.rs:148-155: an Argon2 hash in PHC text form, with a fresh salt.
hash_password(password) == [form |-> "phc", salt |-> "salt", password |-> password]

\* master.rs:157-163: a hash that does not parse is an error; otherwise the
\* password is verified against it.
verify_password(password, hash) ==
    IF hash.form # "phc" THEN [err |-> TRUE, ok |-> FALSE]
    ELSE [err |-> FALSE, ok |-> hash = [hash_password(password) EXCEPT !.salt = hash.salt]]

\* The secret that authenticate_user signs with (master.rs:124).
LoginSecret == "your-secret-key"

\* authenticate_user with the token given to whoever has a record.
authenticate_user_NoVerify(rows, email, password, tenant_id, answered, now) ==
    LET found == {u \in rows : u.email = email /\ u.tenant_id = tenant_id}
        u == CHOOSE u \in found : TRUE
    IN IF ~answered THEN [err |-> TRUE, some |-> FALSE, token |-> Garbage]
       ELSE IF found = {} THEN [err |-> FALSE, some |-> FALSE, token |-> Garbage]
       ELSE [err |-> FALSE, some |-> TRUE,
             token |-> create_jwt_token(u.id, tenant_id, u.permissions, LoginSecret,
                                        jwt_expiration, now)]

\* master.rs:101-146: the row of (email, tenant id) is selected; without a
\* row, or with a password that does not verify, None; a query that fails
\* or a hash that does not parse is an Err.
authenticate_user(rows, email, password, tenant_id, answered, now) ==
    LET found == {u \in rows : u.email = email /\ u.tenant_id = tenant_id}
        u == CHOOSE u \in found : TRUE
    IN IF ~answered THEN [err |-> TRUE, some |-> FALSE, token |-> Garbage]
       ELSE IF found = {} THEN [err |-> FALSE, some |-> FALSE, token |-> Garbage]
       ELSE IF verify_password(password, u.password_hash).err
            THEN [err |-> TRUE, some |-> FALSE, token |-> Garbage]
       ELSE IF verify_password(password, u.password_hash).ok
            THEN [err |-> FALSE, some |-> TRUE,
                  token |-> create_jwt_token(u.id, tenant_id, u.permissions, LoginSecret,
                                             jwt_expiration, now)]
       ELSE [err |-> FALSE, some |-> FALSE, token |-> Garbage]

\* auth_controller.rs:20-22: an Err is status 500, None is status 401.
LoginStatus(res) ==
    IF res.err THEN INTERNAL_SERVER_ERROR ELSE IF ~res.some THEN UNAUTHORIZED ELSE OK

\* The tenant that login and register use (auth_controller.rs:17).
DemoTenant == 1

\* Table users: a user of the demo tenant, a user of another tenant, and a
\* user whose stored hash is not a PHC string.
UserRows ==
    {[email |-> "a@x", tenant_id |-> DemoTenant, id |-> "u1",
      password_hash |-> hash_password("pw-a"), permissions |-> <<"users:read", "users:write">>],
     [email |-> "b@x", tenant_id |-> DemoTenant + 1, id |-> "u2",
      password_hash |-> hash_password("pw-b"), permissions |-> <<"users:read", "users:write">>],
     [email |-> "c@x", tenant_id |-> DemoTenant, id |-> "u3",
      password_hash |-> [form |-> "text", salt |-> "", password |-> "pw-c"],
      permissions |-> <<"users:read", "users:write">>]}
Emails == {"a@x", "b@x", "c@x", "nobody@x"}
Passwords == {"pw-a", "pw-b", "pw-c"}

\* Tokens in date for the demo tenant, signed with one secret or the other.
LoginHeaders ==
    {Header(TRUE, TRUE, "Bearer ", Issued("u1", DemoTenant, key, JustNow)) : key \in Secrets}

InitLogin ==
    /\ clock = StartTime
    /\ jwt_secret \in Secrets
    /\ directory = [t \in Tenants \ {UnknownTenant} |-> "active"]
    /\ stores = [t \in Tenants |-> IF t = UnknownTenant THEN "absent" ELSE "migrated"]
    /\ connections = << >>
    /\ lock = NoWorker
    /\ master_connection = [store |-> <<"master", 0>>, id |-> 1]
    /\ pc = [r \in Workers |-> "idle"]
    /\ req = [r \in Workers |-> NoHeader]
    /\ claims = [r \in Workers |-> NoClaims]
    /\ resp = [r \in Workers |-> NoResp]
    /\ ext = [r \in Workers |-> NoExt]
    /\ call = [r \in Workers |-> NoCall]
    /\ jwt = NoJwt
    /\ prov = [a \in Admins |-> NoProv]
    /\ dead = {}
    /\ lapsed = {}
    /\ perm = NoPerm
    /\ login = NoLogin

\* The handler of the request's route runs: after auth_middleware has passed
\* the request on if the route is layered, at once if it is not.  The login
\* handler (auth_controller.rs:12-25) answers with authenticate_user's token
\* or with a status.
Handle(r, route, email, password, answered) ==
    /\ login.phase = "none"
    /\ IF Layered(route) THEN pc[r] = "handler" ELSE pc[r] = "idle"
    /\ LET res == authenticate_user(UserRows, email, password, DemoTenant, answered, clock)
           gated == /\ pc[r] = "handler" /\ ext[r].attached /\ call[r].conn # NoConn
                    /\ validate_jwt_token(extract_token_from_request(req[r]).val,
                                          jwt_secret, clock).err = "none"
       IN login' = IF route = "/auth/login"
                     THEN [phase |-> "answered", worker |-> r, route |-> route,
                           gated |-> gated, email |-> email, password |-> password,
                           answered |-> answered,
                           status |-> LoginStatus(res), some |-> res.some,
                           token |-> res.token]
                   ELSE [NoLogin EXCEPT !.phase = "answered", !.worker = r, !.route = route,
                                        !.gated = gated]
    /\ UNCHANGED <<clock, jwt_secret, lapsed, dead, perm, directory, stores, connections, lock,
                   master_connection, pc, req, claims, resp, ext, call, jwt, prov>>

\* The response of the handler has been sent and the request is over.
HandleDone ==
    /\ login.phase = "answered"
    /\ pc[login.worker] = "idle"
    /\ login' = NoLogin
    /\ UNCHANGED <<clock, jwt_secret, lapsed, dead, perm, directory, stores, connections, lock,
                   master_connection, pc, req, claims, resp, ext, call, jwt, prov>>

\* A request that presents the token that login answered with.
PresentIssued(r) ==
    /\ login.phase = "answered" /\ login.some
    /\ Receive(r, Header(TRUE, TRUE, "Bearer ", login.token))

NextLogin ==
    \/ \E r \in CapWorkers, h \in LoginHeaders : Receive(r, h)
    \/ \E r \in CapWorkers : PresentIssued(r)
    \/ \E r \in CapWorkers : CacheHit(r)
    \/ \E r \in CapWorkers : CacheMiss(r)
    \/ \E r \in CapWorkers, answered \in BOOLEAN : ValidateTenant(r, answered, QueryErr)
    \/ \E r \in CapWorkers, reachable \in BOOLEAN : Connect(r, reachable)
    \/ \E r \in CapWorkers : Finish(r)
    \/ \E r \in CapWorkers, route \in Routes, email \in Emails, password \in Passwords,
          answered \in BOOLEAN : Handle(r, route, email, password, answered)
    \/ HandleDone

SpecLogin == InitLogin /\ [][NextLogin]_vars

(***************************************************************************)
(* Tenant creation together with requests: one create_tenant call at a     *)
(* time, and one task that serves requests with tokens of the tenants that *)
(* are being created.                                                      *)
(***************************************************************************)
MixAdmins == {1}
MixHeaders == {Header(TRUE, TRUE, "Bearer ", tok) : tok \in FreshTokens(NewTenants)}

NextMix ==
    \/ \E a \in MixAdmins, t \in NewTenants, ok \in BOOLEAN : CreateTenant(a, t, ok)
    \/ \E a \in MixAdmins, ok \in BOOLEAN : ConnectAdmin(a, ok)
    \/ \E a \in MixAdmins, ok \in BOOLEAN : CreateDatabase(a, ok)
    \/ \E a \in MixAdmins, ok \in BOOLEAN : ConnectTenantStore(a, ok)
    \/ \E a \in MixAdmins, outcome \in UpOutcomes : Migrate(a, outcome)
    \/ \E a \in MixAdmins : ProvFinish(a)
    \/ \E r \in CapWorkers, h \in MixHeaders : Receive(r, h)
    \/ \E r \in CapWorkers : CacheHit(r)
    \/ \E r \in CapWorkers : CacheMiss(r)
    \/ \E r \in CapWorkers, answered \in BOOLEAN : ValidateTenant(r, answered, QueryErr)
    \/ \E r \in CapWorkers, reachable \in BOOLEAN : Connect(r, reachable)
    \/ \E r \in CapWorkers : Finish(r)

SpecMix == InitProv /\ [][NextMix]_vars

(***************************************************************************)
(* Properties.                                                             *)
(***************************************************************************)
\* What auth_middleware's extraction and verification make of a header.
Verdict(h) ==
    LET tok == extract_token_from_request(h)
    IN IF ~tok.some THEN "NoToken" ELSE validate_jwt_token(tok.val, jwt_secret, clock).err

TenantOf(r) == claims[r].tenant_id
Returned(r) == pc[r] \in {"handler", "rejected"}

\* C1: a get_tenant_connection call that does not find the tenant in the
\* cache returns a connection only if the directory lookup of that same call
\* found the tenant active; a tenant that the lookup finds unknown or not
\* active, or a lookup that fails, gets no connection from that call.
C1_HandleOnlyIfActiveAtLookup ==
    \A r \in Workers :
        /\ (pc[r] = "handler" /\ ~call[r].hit) => call[r].lookup = "active"
        /\ call[r].lookup \in {"none", "suspended", "error"} =>
              /\ pc[r] = "rejected"
              /\ call[r].conn = NoConn
              /\ ~ext[r].attached

\* A call that missed the cache returned a connection, its lookup saw the
\* tenant active, and the tenant has been suspended since.
C1_Witness ==
    \E r \in Workers :
        /\ pc[r] = "handler" /\ ~call[r].hit /\ call[r].lookup = "active"
        /\ StatusOf(directory, TenantOf(r)) = "suspended"

C3_OneEntryForAllCallers ==
    \A r1, r2 \in Workers :
        (pc[r1] = "handler" /\ pc[r2] = "handler" /\ TenantOf(r1) = TenantOf(r2)) =>
            /\ TenantOf(r1) \in DOMAIN connections
            /\ call[r1].conn = connections[TenantOf(r1)]
            /\ call[r2].conn = call[r1].conn
            /\ call[r1].conn.store = <<"tenant_", TenantOf(r1)>>

\* Two calls for the same tenant, both made while it was not cached, have
\* both returned: one filled the cache, the other found the entry.
C3_Witness ==
    \E r1, r2 \in Workers :
        /\ r1 # r2 /\ pc[r1] = "handler" /\ pc[r2] = "handler"
        /\ TenantOf(r1) = TenantOf(r2)
        /\ ~call[r1].cachedAtCall /\ ~call[r2].cachedAtCall
        /\ ~call[r1].hit /\ call[r2].hit

\* C4 as stated: a call for a tenant that is unregistered or Suspended when
\* the call is made returns the tenant-inactive-or-unknown error (or the
\* lookup's own failure) and opens no connection.
C4_InactiveAtCallIsRefused ==
    \A r \in Workers :
        (call[r].invoked /\ call[r].statusAtCall \in {"none", "suspended"} /\ Returned(r)) =>
            /\ pc[r] = "rejected"
            /\ resp[r].routeErr \in {"TenantInactiveOrUnknown", "DirectoryUnavailable"}
            /\ ~call[r].attempted

\* C4 as amended: a call that does not find the tenant in the cache and
\* whose directory lookup finds it unregistered or Suspended returns the
\* tenant-inactive-or-unknown error, and opens no connection.
C4_InactiveAtLookupIsRefused ==
    \A r \in Workers :
        (call[r].invoked /\ call[r].lookup \in {"none", "suspended"}) =>
            /\ ~call[r].hit
            /\ pc[r] = "rejected"
            /\ resp[r].routeErr = "TenantInactiveOrUnknown"
            /\ ~call[r].attempted
            /\ call[r].conn = NoConn

\* One call was refused for an unregistered tenant and one for a suspended
\* tenant.
C4_Witness ==
    \E r1, r2 \in Workers :
        /\ pc[r1] = "rejected" /\ call[r1].lookup = "none"
        /\ pc[r2] = "rejected" /\ call[r2].lookup = "suspended"

\* The state a request rejected at extraction or verification is in, and the
\* step that rejects it.
C5_RejectedState ==
    \A r \in Workers :
        (pc[r] # "idle" /\ Verdict(req[r]) # "none") =>
            /\ pc[r] = "rejected"
            /\ call[r] = NoCall
            /\ ext[r] = NoExt
            /\ ~resp[r].handler
C5_RejectedStep ==
    \A r \in Workers :
        (pc[r] = "idle" /\ pc'[r] # "idle" /\ Verdict(req'[r]) # "none") =>
            (connections' = connections /\ lock' = lock)

\* C5: a request whose token is missing or fails verification is rejected
\* without get_tenant_connection being invoked, with nothing attached and
\* the handler not run, and the step that rejects it leaves the cache and
\* its lock as they were.
C5_RejectedBeforeResolution == []C5_RejectedState /\ [][C5_RejectedStep]_vars

\* A request with an expired token has been rejected.
C5_Witness ==
    \E r \in Workers :
        pc[r] = "rejected" /\ req[r].rest = StaleToken /\ resp[r].authErr = "Expired"

\* C6: a request handed to the handler carries the TenantContext of its
\* verified token's claims and a connection to the store of that token's
\* tenant.
C6_ContextOfVerifiedToken ==
    \A r \in Workers :
        pc[r] = "handler" =>
            LET tok == req[r].rest IN
            /\ req[r].prefix = "Bearer " /\ tok.form = "jwt"
            /\ tok.sig = Hmac(tok.claims, jwt_secret)
            /\ ext[r].attached
            /\ ext[r].ctx.tenant_id = tok.claims.tenant_id
            /\ ext[r].ctx.user_id = tok.claims.sub
            /\ ext[r].ctx.permissions = tok.claims.permissions
            /\ ext[r].conn # NoConn
            /\ ext[r].conn.store = <<"tenant_", tok.claims.tenant_id>>

\* Two requests of different tenants and users are with their handlers, one
\* served from the cache.
C6_Witness ==
    \E r1, r2 \in Workers :
        /\ pc[r1] = "handler" /\ pc[r2] = "handler"
        /\ ext[r1].ctx.tenant_id # ext[r2].ctx.tenant_id
        /\ ext[r1].ctx.user_id # ext[r2].ctx.user_id
        /\ call[r1].hit

\* C7: a request with a valid token whose tenant resolution fails with
\* tenant-inactive-or-unknown is rejected with status 401.
C7_InactiveOrUnknownIs401 ==
    \A r \in Workers :
        (pc[r] = "rejected" /\ resp[r].routeErr = "TenantInactiveOrUnknown") =>
            resp[r].status = UNAUTHORIZED

\* C8: a request with a valid token whose tenant resolution fails because
\* the tenant store cannot be connected to, or because the directory lookup
\* failed, is rejected with status 500.
C8_InfrastructureFailureIs500 ==
    \A r \in Workers :
        (Returned(r) /\ Verdict(req[r]) = "none"
            /\ (call[r].lookup = "error" \/ (call[r].attempted /\ call[r].conn = NoConn))) =>
            /\ pc[r] = "rejected"
            /\ resp[r].routeErr \in {"ConnectFailed", "DirectoryUnavailable"}
            /\ resp[r].status = INTERNAL_SERVER_ERROR

\* One request was rejected for a failed connect and one for a failed lookup.
C8_Witness ==
    \E r1, r2 \in Workers :
        /\ pc[r1] = "rejected" /\ resp[r1].routeErr = "ConnectFailed"
        /\ pc[r2] = "rejected" /\ resp[r2].routeErr = "DirectoryUnavailable"

\* C9: a request with no Authorization header, with one that is not text, or
\* with one that does not start with "Bearer ", is rejected with status 401.
C9_NoBearerTokenIs401 ==
    \A r \in Workers :
        (pc[r] # "idle" /\ (~req[r].present \/ ~req[r].text \/ req[r].prefix # "Bearer ")) =>
            /\ pc[r] = "rejected"
            /\ resp[r].status = UNAUTHORIZED

\* A request with no header and a request with a header of another scheme
\* have been rejected.
C9_Witness ==
    \E r1, r2 \in Workers :
        /\ pc[r1] = "rejected" /\ ~req[r1].present
        /\ pc[r2] = "rejected" /\ req[r2].present /\ req[r2].text /\ req[r2].prefix # "Bearer "

VerifyErrs == {"Malformed", "InvalidSignature", "Expired"}

\* C10: two requests whose tokens fail verification, for whatever reasons,
\* get the same response, status 401.
C10_VerificationFailuresAlike ==
    \A r1, r2 \in Workers :
        (pc[r1] # "idle" /\ pc[r2] # "idle"
            /\ Verdict(req[r1]) \in VerifyErrs /\ Verdict(req[r2]) \in VerifyErrs) =>
            /\ pc[r1] = "rejected" /\ pc[r2] = "rejected"
            /\ resp[r1].status = resp[r2].status
            /\ resp[r1].status = UNAUTHORIZED

\* Requests rejected for an expired token and for a badly signed one.
C10_Witness ==
    \E r1, r2 \in Workers :
        /\ pc[r1] = "rejected" /\ resp[r1].authErr = "Expired"
        /\ pc[r2] = "rejected" /\ resp[r2].authErr = "InvalidSignature"

\* C11: a token that create_jwt_token made with time to live ttl fails
\* verification, as expired, at every clock value later than its issue time
\* plus ttl, and auth_middleware answers 401 to it.
C11_RejectedOnceTtlPassed ==
    (jwt.phase = "verified" /\ jwt.out.late) =>
        /\ jwt.out.err # "none"
        /\ AuthStatus(jwt.out.err) = UNAUTHORIZED
        /\ (jwt.secret = jwt_secret => jwt.out.err = "Expired")

C13_BadSignatureNeverAccepted ==
    \A r \in Workers :
        LET tok == req[r].rest IN
        (pc[r] # "idle" /\ extract_token_from_request(req[r]).some /\ tok.form = "jwt"
            /\ tok.sig # Hmac(tok.claims, jwt_secret)) =>
            /\ pc[r] = "rejected"
            /\ resp[r].authErr = "InvalidSignature"
            /\ resp[r].status = UNAUTHORIZED
            /\ call[r] = NoCall
            /\ ~ext[r].attached

\* A token signed with another secret and a token whose payload was changed
\* after signing have been rejected.
C13_Witness ==
    \E r1, r2 \in Workers :
        /\ pc[r1] = "rejected" /\ req[r1].rest = ForeignToken
        /\ pc[r2] = "rejected" /\ req[r2].rest = TamperedToken

\* What a step does to the entries of the map and what a call that finds
\* its tenant in the map returns.
C14_Step ==
    /\ \A t \in DOMAIN connections \cap DOMAIN connections' :
            connections'[t] = connections[t]
    /\ \A r \in Workers :
            (pc[r] = "wait_lock" /\ pc'[r] = "handler" /\ TenantOf(r) \in DOMAIN connections) =>
                call'[r].conn = connections[TenantOf(r)]

\* C14: an entry of the map keeps its connection for as long as it stays in
\* the map (no fill for the same tenant, later or concurrent, replaces it),
\* and a call for a tenant that has an entry returns that entry's connection.
C14_StableHandle == [][C14_Step]_vars

\* Two calls for one tenant, made one after the other while it was cached,
\* returned the same connection.
C14_Witness ==
    \E r1, r2 \in Workers :
        /\ r1 # r2 /\ pc[r1] = "handler" /\ pc[r2] = "handler"
        /\ TenantOf(r1) = TenantOf(r2)
        /\ call[r1].cachedAtCall /\ call[r2].cachedAtCall
        /\ call[r1].hit /\ call[r2].hit
        /\ call[r1].conn = call[r2].conn

\* C15: a call that inserts its tenant into a map at capacity evicts one
\* entry only: every other entry is kept, so the map is at capacity again.
C15_EvictsOneEntry ==
    \A r \in Workers :
        (pc[r] = "handler" /\ call[r].evicted) =>
            Cardinality(DOMAIN connections) = max_connections_per_tenant

\* C16: a call for a tenant that is in the map does not wait while another
\* call, filling a miss, is at its directory lookup or its connection open.
C16_HitDoesNotWaitForFill ==
    \A r \in Workers :
        (pc[r] = "wait_lock" /\ TenantOf(r) \in DOMAIN connections) =>
            ~(\E w \in Workers : w # r /\ lock = w /\ pc[w] \in {"validating", "connecting"})

\* C17: a call that finds its tenant in the map has taken shared (read)
\* access to the map, so that two such calls can be in the map together;
\* exclusive access is taken by the calls that fill a miss only.
C17_HitsTakeSharedAccess ==
    \A r \in Workers : call[r].hit => call[r].guard = "read"

\* C18: a tenant is Active in the directory only if the provisioning of
\* its store (creation and schema application) has returned success.
C18_ActiveOnlyIfProvisioned ==
    \A t \in Tenants : StatusOf(directory, t) = "active" => stores[t] = "migrated"

\* C19: a create_tenant_database call for a tenant whose store exists and
\* has no schema, made while no other call is under way and in which nothing
\* fails but the creation of the store that is already there, applies the
\* schema and succeeds.
C19_RetryCompletesSchema ==
    \A a \in Admins :
        (prov[a].pc = "returned" /\ prov[a].storeAtCall = StoreCreated
            /\ prov[a].cause \in {"none", "exists"}
            /\ \A b \in Admins \ {a} : prov[b].pc \in {"idle", "returned"}) =>
            /\ prov[a].failed = "none"
            /\ stores[prov[a].tenant] = "migrated"

\* C20: a create_tenant request whose provisioning failed at schema
\* application, after the store was created, is answered differently from one
\* whose provisioning failed at store creation.
C20_FailedStepDistinguishable ==
    \A a1, a2 \in Admins :
        (prov[a1].pc = "returned" /\ prov[a2].pc = "returned"
            /\ prov[a1].via = "handler" /\ prov[a2].via = "handler"
            /\ prov[a1].failed = "store" /\ prov[a2].failed = "schema") =>
            prov[a1].status # prov[a2].status

\* C22: a get_tenant_connection call made when the connection cached for
\* its tenant is dead does not return a dead connection.
C22_DeadHandleNotServed ==
    \A r \in Workers :
        (pc[r] = "handler" /\ call[r].deadAtCall) => call[r].conn \notin dead

\* C24: the master connection is the one made when the manager was
\* constructed, in every state, and every create_tenant handler was given
\* that connection by get_master_connection.
C24_MasterConnectionConstant ==
    /\ master_connection = [store |-> <<"master", 0>>, id |-> 1]
    /\ \A a \in Admins : prov[a].via = "handler" => prov[a].master = master_connection

\* A create_tenant call was given the master connection and has returned,
\* and a get_tenant_connection call has filled the cache for its tenant.
C24_Witness ==
    \E a \in Admins, r \in Workers :
        /\ prov[a].via = "handler" /\ prov[a].pc = "returned" /\ prov[a].failed = "none"
        /\ prov[a].master = master_connection
        /\ pc[r] = "handler" /\ TenantOf(r) = prov[a].tenant /\ ~call[r].hit

\* C25: require_permission returns ok exactly when the required permission
\* is one of the context's permissions and the Err of status 403 otherwise,
\* and the call changes nothing but its own result.
C25_ExactMembership ==
    /\ [](perm.phase = "returned" =>
            perm.result =
                IF perm.required \in {perm.context.permissions[i] :
                                        i \in 1..Len(perm.context.permissions)}
                    THEN [ok |-> TRUE, status |-> 0]
                ELSE [ok |-> FALSE, status |-> 403])
    /\ [][/\ perm'.context = perm.context /\ perm'.required = perm.required
          /\ UNCHANGED <<clock, jwt_secret, lapsed, login, dead, directory, stores, connections, lock,
                         master_connection, pc, req, claims, resp, ext, call, jwt, prov>>]_vars

C25_Witness ==
    /\ perm.phase = "returned"
    /\ perm.context.permissions = <<"orders:read">>
    /\ perm.required = "orders:write"
    /\ perm.result = [ok |-> FALSE, status |-> 403]

\* C26: no store-creation statement is built from a tenant id with a
\* character outside the allow-listed set: create_tenant_database does not
\* get as far as sending CREATE DATABASE for such an id.
C26_HostileIdRejectedFirst ==
    \A a \in Admins : prov[a].pc = "create_db" => AllowListed(prov[a].tenant)

\* The steps of one request: Unauthenticated is "idle", TokenVerified is the
\* stretch in get_tenant_connection, TenantResolved and ContextAttached are
\* reached in one step (no suspension point between them), Rejected is
\* "rejected"; a task that has answered takes the next request.
C27_Step(r) ==
    IF pc'[r] = pc[r]
        THEN pc[r] \in {"idle", "handler", "rejected"} =>
                (resp'[r] = resp[r] /\ ext'[r] = ext[r] /\ call'[r] = call[r])
    ELSE IF pc[r] = "idle"
        THEN /\ pc'[r] \in {"wait_lock", "rejected"}
             /\ call'[r].invoked = (pc'[r] = "wait_lock")
             /\ pc'[r] = "wait_lock" => Verdict(req'[r]) = "none"
             /\ ~ext'[r].attached /\ ~resp'[r].handler
    ELSE IF pc[r] \in {"wait_lock", "validating", "connecting"}
        THEN /\ pc'[r] \in {"validating", "connecting", "handler", "rejected"}
             /\ call[r].invoked
             /\ IF pc'[r] = "handler"
                    THEN /\ call'[r].conn # NoConn
                         /\ ext'[r].attached
                         /\ ext'[r].conn = call'[r].conn
                         /\ ext'[r].ctx = TenantContextOf(claims[r])
                         /\ resp'[r].handler
                 ELSE ~ext'[r].attached /\ ~resp'[r].handler
    ELSE pc[r] \in {"handler", "rejected"} /\ pc'[r] = "idle"

\* C27: a request passes the states in the order Unauthenticated,
\* TokenVerified, TenantResolved, ContextAttached, or is Rejected from a
\* state before ContextAttached; nothing follows Rejected or ContextAttached;
\* get_tenant_connection is called only for a verified token, and the
\* handler runs only with the context and the connection attached.
C27_AuthStatesInOrder == [][\A r \in Workers : C27_Step(r)]_vars

\* One request is with its handler, another was rejected when the connect to
\* its tenant's store failed.
C27_Witness ==
    \E r1, r2 \in Workers :
        /\ pc[r1] = "handler" /\ ext[r1].attached /\ ext[r1].conn = call[r1].conn
        /\ pc[r2] = "rejected" /\ resp[r2].routeErr = "ConnectFailed" /\ call[r2].attempted

\* C28: in the state that a successful get_tenant_connection call for a
\* tenant returns in, the cache has an entry for that tenant and the
\* connection returned is that entry's, also when the call cleared a full
\* cache.
C28_ReturnedHandleIsCached ==
    [][\A r \in Workers :
        (pc[r] # "handler" /\ pc'[r] = "handler") =>
            /\ claims'[r].tenant_id \in DOMAIN connections'
            /\ call'[r].conn # NoConn
            /\ call'[r].conn = connections'[claims'[r].tenant_id]]_vars

\* A call that cleared a full cache has returned: its entry is the only one.
C28_Witness ==
    \E r \in Workers :
        /\ pc[r] = "handler" /\ call[r].evicted
        /\ DOMAIN connections = {TenantOf(r)}
        /\ connections[TenantOf(r)] = call[r].conn

\* C29: every entry of the cache stored under a tenant id holds a
\* connection to the database tenant_<that id>, and a call for a tenant
\* returns a connection to that tenant's database.
C29_EntryIsOfItsTenant ==
    /\ \A t \in DOMAIN connections : connections[t].store = <<"tenant_", t>>
    /\ \A r \in Workers :
            call[r].conn # NoConn => call[r].conn.store = <<"tenant_", TenantOf(r)>>

\* The cache is full and a call has been served from it.
C29_Witness ==
    /\ Cardinality(DOMAIN connections) = 10
    /\ \E r \in Workers : pc[r] = "handler" /\ call[r].hit

\* C30: the step in which a get_tenant_connection call fails leaves the
\* cache as it was, and the only step that changes the cache is the one in
\* which a call returns the connection it has opened.
C30_FailureLeavesCache ==
    [][/\ \A r \in Workers :
            (pc[r] # "rejected" /\ pc'[r] = "rejected") => connections' = connections
       /\ connections' # connections =>
            \E r \in Workers : pc[r] = "connecting" /\ pc'[r] = "handler"]_vars

\* A call has failed at the connect while the cache was full, and the cache
\* is still full.
C30_Witness ==
    \E r \in Workers :
        /\ pc[r] = "rejected" /\ resp[r].routeErr = "ConnectFailed"
        /\ Cardinality(DOMAIN connections) = 10

\* C31: every get_tenant_connection call returns (a connection or an
\* error), and the lock is held only by a call that has not returned.
C31_EveryCallReturns ==
    /\ \A r \in Workers :
            (pc[r] \in {"wait_lock", "validating", "connecting"}) ~> Returned(r)
    /\ [](\A r \in Workers : lock = r => pc[r] \in {"validating", "connecting"})

\* Two calls for one uncached tenant have returned, the second after it
\* waited for the first; the lock is free.
C31_Witness ==
    \E r1, r2 \in Workers :
        /\ r1 # r2 /\ Returned(r1) /\ Returned(r2) /\ lock = NoWorker
        /\ call[r1].invoked /\ call[r2].invoked /\ TenantOf(r1) = TenantOf(r2)
        /\ ~call[r1].cachedAtCall /\ ~call[r2].cachedAtCall
        /\ call[r1].guard = GuardTaken /\ call[r2].guard = GuardTaken

\* C32 as stated: of the concurrent get_tenant_connection calls for one
\* uncached active tenant, at most one makes a directory lookup and at most
\* one calls Database::connect.
C32_OneLookupOneOpen ==
    \A r1, r2 \in Workers :
        (r1 # r2 /\ TenantOf(r1) = TenantOf(r2) /\ call[r1].statusAtCall = "active") =>
            /\ ~(call[r1].lookup # "not_made" /\ call[r2].lookup # "not_made")
            /\ ~(call[r1].attempted /\ call[r2].attempted)

\* C32 as amended: of the concurrent get_tenant_connection calls for one
\* uncached active tenant, at most one opens a connection, and that
\* connection is the tenant's entry; while the tenant has an entry no call
\* is making a lookup or a connect for it, and the calls that return after
\* the entry was made are served from it.
C32_OneOpenSucceeds ==
    \A r1, r2 \in Workers :
        (r1 # r2 /\ TenantOf(r1) = TenantOf(r2) /\ call[r1].statusAtCall = "active"
            /\ call[r1].conn # NoConn /\ ~call[r1].hit) =>
            /\ TenantOf(r1) \in DOMAIN connections
            /\ connections[TenantOf(r1)] = call[r1].conn
            /\ pc[r2] \notin {"validating", "connecting"}
            /\ pc[r2] = "handler" => (call[r2].hit /\ call[r2].lookup = "not_made"
                                        /\ ~call[r2].attempted
                                        /\ call[r2].conn = call[r1].conn)
            /\ pc[r2] = "rejected" => resp[r2].routeErr \in {"ConnectFailed", "DirectoryUnavailable"}

\* Of two concurrent calls for one tenant, the first failed at the connect,
\* the second opened the connection.
C32_Witness ==
    \E r1, r2 \in Workers :
        /\ r1 # r2 /\ TenantOf(r1) = TenantOf(r2)
        /\ pc[r1] = "handler" /\ ~call[r1].hit /\ call[r1].conn # NoConn
        /\ pc[r2] = "rejected" /\ resp[r2].routeErr = "ConnectFailed"

\* C33: a connection is cached for a tenant, or handed to a request of the
\* tenant, only when the tenant's store exists with its schema applied.
C33_ServedOnlyWhenMigrated ==
    /\ \A t \in DOMAIN connections : stores[t] = "migrated"
    /\ \A r \in Workers : pc[r] = "handler" => stores[TenantOf(r)] = "migrated"

\* C34: a request that presents the token that login answered with passes
\* the verification of auth_middleware, whatever secret is configured.
C34_LoginTokenAccepted ==
    \A r \in Workers :
        (login.phase = "answered" /\ login.some /\ pc[r] # "idle"
            /\ req[r].rest = login.token) =>
            resp[r].authErr = "none"

\* C35: the handler of a route, whichever it is, runs only for a request
\* whose token verified and to which the tenant's connection was attached.
C35_EveryRouteGated ==
    login.phase = "answered" => login.gated

\* The health check and the login handler have run for requests that had
\* passed the middleware.
C35_Witness ==
    /\ login.phase = "answered" /\ login.route \in {"/", "/auth/login"} /\ login.gated
    /\ pc[login.worker] = "handler"

\* C36: login answers 401 with no token both for an email without a record
\* in the tenant and for a password that does not verify against the
\* record's hash; it answers with a token only if the record of (email,
\* tenant id) exists and the password verifies against its hash.
C36_LoginOutcome ==
    (login.phase = "answered" /\ login.route = "/auth/login") =>
        LET found == {u \in UserRows : u.email = login.email /\ u.tenant_id = DemoTenant}
            wrong == \E u \in found :
                            /\ u.password_hash.form = "phc"
                            /\ u.password_hash.password # login.password
            matches == \E u \in found :
                            /\ u.password_hash.form = "phc"
                            /\ u.password_hash.password = login.password
        IN /\ (login.answered /\ found = {}) => (login.status = 401 /\ ~login.some)
           /\ (login.answered /\ wrong) => (login.status = 401 /\ ~login.some)
           /\ login.some = (login.status = 200)
           /\ login.some => (matches /\ login.token.form = "jwt"
                                /\ login.token.claims.tenant_id = DemoTenant
                                /\ \E u \in found : login.token.claims.sub = u.id)
           /\ ~login.some => login.token.form = "garbage"

\* Login has answered 401 to an email without a record in the tenant (the
\* user of another tenant, with that user's password).
C36_Witness ==
    /\ login.phase = "answered" /\ login.route = "/auth/login" /\ login.answered
    /\ login.email = "b@x" /\ login.password = "pw-b"
    /\ login.status = 401 /\ ~login.some

\* A tenant that was suspended, whose entry was removed since and that is
\* still suspended, has no entry and no request holds a connection from a
\* call made for it since.
C37_NoHandleOnceLapsed ==
    \A t \in lapsed :
        /\ StatusOf(directory, t) = "suspended"
        /\ t \notin DOMAIN connections
        /\ \A r \in Workers : pc[r] = "handler" => TenantOf(r) # t

\* C37 as stated: once a tenant is suspended and its entry was removed, no
\* call returns a connection for it while it stays suspended; and a call
\* returns a connection for a suspended tenant only from the tenant's entry.
C37_SuspendedServedFromEntryOnly ==
    /\ []C37_NoHandleOnceLapsed
    /\ [][\A r \in Workers :
            (pc[r] # "handler" /\ pc'[r] = "handler"
                /\ StatusOf(directory, TenantOf(r)) = "suspended") =>
                call'[r].hit]_vars

\* C37 as amended: once a tenant is suspended and its entry was removed, no
\* call returns a connection for it while it stays suspended; and a call
\* returns a connection for a suspended tenant only from the tenant's entry
\* or after its own lookup found the tenant active.
C37_SuspendedServedIfSeenActive ==
    /\ []C37_NoHandleOnceLapsed
    /\ [][\A r \in Workers :
            (pc[r] # "handler" /\ pc'[r] = "handler"
                /\ StatusOf(directory, TenantOf(r)) = "suspended") =>
                \/ call'[r].hit /\ TenantOf(r) \in DOMAIN connections
                                /\ call'[r].conn = connections[TenantOf(r)]
                \/ call[r].lookup = "active" /\ TenantOf(r) \notin lapsed]_vars

\* A call for a tenant that was suspended and whose entry was removed since
\* has been refused.
C37_Witness ==
    \E r \in Workers :
        /\ TenantOf(r) \in lapsed
        /\ pc[r] = "rejected" /\ resp[r].routeErr = "TenantInactiveOrUnknown"
        /\ call[r].lookup = "suspended"

\* C38: a connection attempt that is in progress ends only by completing,
\* also when the request has abandoned the call: with its connection
\* inserted into the map, or with the error of the connect.
C38_AbandonedAttemptCompletes ==
    [][\A r \in Workers :
        (pc[r] = "connecting" /\ pc'[r] # "connecting") =>
            \/ /\ call'[r].conn # NoConn
               /\ TenantOf(r) \in DOMAIN connections'
               /\ connections'[TenantOf(r)] = call'[r].conn
            \/ call'[r].err.source # "none"]_vars

C21_FailuresDistinguishable ==
    \A r1, r2 \in Workers :
        (pc[r1] = "rejected" /\ pc[r2] = "rejected"
            /\ resp[r1].routeErr # "none" /\ resp[r2].routeErr # "none"
            /\ resp[r1].routeErr # resp[r2].routeErr) =>
            /\ call[r1].err # call[r2].err
            /\ call[r1].err.source # "none" /\ call[r2].err.source # "none"

====
